---- MODULE Spec2Model ----
(***************************************************************************)
(* Model of the waveform codec, block framing and transfer operations of   *)
(* the AWG driver, src/instruments/awg.py (class Instr).                    *)
(*                                                                         *)
(* A byte string is a sequence of numbers in 0..255.  A float32 amplitude  *)
(* is its IEEE-754 bit pattern, the record [sign, exp, mant].  Integer     *)
(* division, & and the shifts of the source are \div, % and * / \div by a  *)
(* power of two.                                                           *)
(***************************************************************************)
EXTENDS Integers, Sequences, FiniteSets, TLC

VARIABLES
  buffer,         \* codec: the caller's sample buffer [codec, values, markers]
  data,           \* codec: the payload bytes handed to the decoder / framer
  block,          \* codec: header + payload
  unframed,       \* codec: [markers, waveform]: the payload as getMarkers and
                  \*        getWaveform strip it
  decoded,        \* codec: what read*Data / readMarkers returned
  stage,          \* codec: position in encode / frame / decode
  pc,             \* driver: "idle", "done", or "loop" inside getWaveforms
  op,             \* driver: the operation called last
  args,           \* driver: its arguments and the instrument's replies
  ret,            \* driver: its return value, or the exception raised
  log,            \* session: the write / ask / notify calls of the call
  waveforms,      \* self.waveforms
  waveformNames,  \* self.waveformNames
  nWaveforms,     \* getWaveforms: local nWaveforms
  i               \* getWaveforms: loop index

vars == <<buffer, data, block, unframed, decoded, stage, pc, op, args, ret, log,
          waveforms, waveformNames, nWaveforms, i>>

codecVars == <<buffer, data, block, unframed, decoded, stage>>
driverVars == <<pc, op, args, ret, log, waveforms, waveformNames, nWaveforms, i>>

(***************************************************************************)
(* Bounds of the model.                                                    *)
(***************************************************************************)
MaxLen == 2         \* samples in a caller's buffer
MaxDrop == 3        \* bytes a payload can lose before it is decoded
MaxWaveforms == 2   \* waveforms the instrument reports

None == "None"

\* Amplitudes of INT buffers (the claimed range is 0..255).
IntAmps == {0, 1, 170, 255}

\* float32 amplitudes: 0.0, 1.0, -1.0 and 0.5000029 (0x3F000031, whose first
\* wire byte is the ASCII digit '1').
RealAmps == { [sign |-> 0, exp |-> 0,   mant |-> 0],
              [sign |-> 0, exp |-> 127, mant |-> 0],
              [sign |-> 1, exp |-> 127, mant |-> 0],
              [sign |-> 0, exp |-> 126, mant |-> 49] }

Markers == 0..3

(***************************************************************************)
(* struct.pack / struct.unpack, native (little-endian) byte order.         *)
(***************************************************************************)
PackH(w) == << w % 256, (w \div 256) % 256 >>

UnpackH(b) == b[1] + 256 * b[2]

PackF(f) == << f.mant % 256,
               (f.mant \div 256) % 256,
               (f.mant \div 65536) + 128 * (f.exp % 2),
               (f.exp \div 2) + 128 * f.sign >>

UnpackF(b) == [ sign |-> b[4] \div 128,
                exp  |-> 2 * (b[4] % 128) + (b[3] \div 128),
                mant |-> (b[3] % 128) * 65536 + b[2] * 256 + b[1] ]

Slice(s, lo, hi) == [ k \in 1..(hi - lo) |-> s[lo + k] ]   \* s[lo:hi], 0-based

(***************************************************************************)
(* The codec.                                                              *)
(***************************************************************************)
RECURSIVE IntLoop(_, _, _, _)
IntLoop(values, mks, j, output) ==
  IF j >= Len(values) THEN output
  ELSE LET marker == mks[j + 1]
           value  == values[j + 1]
       IN  IntLoop(values, mks, j + 1,
                   output \o PackH(((marker % 4) * 16384) + ((value % 256) * 64)))

writeIntData(values, mks) == IntLoop(values, mks, 0, <<>>)

RECURSIVE MarkerLoop(_, _, _)
MarkerLoop(mks, j, output) ==
  IF j >= Len(mks) THEN output
  ELSE MarkerLoop(mks, j + 1, output \o << mks[j + 1] * 64 >>)

writeMarkers(mks) == MarkerLoop(mks, 0, <<>>)

\* readMarkers without the shift back (the marker byte is returned as read).
readMarkers_NoShift(d) == [ k \in 1..Len(d) |-> d[k] ]

RECURSIVE ReadMarkerLoop(_, _, _)
ReadMarkerLoop(d, j, mks) ==
  IF j >= Len(d) THEN mks
  ELSE ReadMarkerLoop(d, j + 1, Append(mks, d[j + 1] \div 64))

readMarkers(d) == ReadMarkerLoop(d, 0, <<>>)

\* numerical.awg_pack_real_data(n, values, markers, buf): sample j goes to
\* buf[5j .. 5j+4], four amplitude bytes and then the marker byte.
awg_pack_real_data(n, valuesFloat, markersInt, buf) ==
  [ k \in 1..Len(buf) |->
      LET j == (k - 1) \div 5
          r == (k - 1) % 5
      IN  IF j >= n THEN buf[k]
          ELSE IF r < 4 THEN PackF(valuesFloat[j + 1])[r + 1]
          ELSE markersInt[j + 1] ]

writeRealData(values, mks) ==
  LET valuesFloat == [ k \in 1..Len(values) |-> values[k] ]
      markersInt  == [ k \in 1..Len(mks) |-> (mks[k] * 64) % 256 ]
      buf         == [ k \in 1..(Len(valuesFloat) * 5) |-> 0 ]
  IN  awg_pack_real_data(Len(valuesFloat), valuesFloat, markersInt, buf)

RECURSIVE RealLoop(_, _, _, _)
RealLoop(d, j, values, mks) ==
  IF j >= Len(d) \div 5 THEN << values, mks >>
  ELSE LET value  == UnpackF(Slice(d, j * 5, j * 5 + 4))
           marker == Slice(d, j * 5 + 4, j * 5 + 5)[1]
       IN  RealLoop(d, j + 1, Append(values, value), Append(mks, marker))

readRealData(d) == RealLoop(d, 0, <<>>, <<>>)

\* readIntData without the & 0xFF mask on the value.
readIntData_NoMask(d) ==
  << [ k \in 1..(Len(d) \div 2) |-> UnpackH(Slice(d, 2 * k - 2, 2 * k)) \div 64 ],
     [ k \in 1..(Len(d) \div 2) |-> UnpackH(Slice(d, 2 * k - 2, 2 * k)) \div 16384 ] >>

RECURSIVE ReadIntLoop(_, _, _, _)
ReadIntLoop(d, j, values, mks) ==
  IF j >= Len(d) \div 2 THEN << values, mks >>
  ELSE LET bytes == UnpackH(Slice(d, j * 2, j * 2 + 2))
           value == (bytes \div 64) % 256
       IN  ReadIntLoop(d, j + 1, Append(values, value), Append(mks, bytes \div 16384))

readIntData(d) == ReadIntLoop(d, 0, <<>>, <<>>)

(***************************************************************************)
(* Block framing.                                                          *)
(***************************************************************************)
Space == {9, 10, 11, 12, 13, 32}     \* \s of the re module, as byte codes

Digit == 48..57                      \* \d: '0'..'9'

Return(v) == [raised |-> None, value |-> v]

Raise(e) == [raised |-> e, value |-> None]

RECURSIVE Dec(_)
Dec(n) == IF n < 10 THEN << 48 + n >> ELSE Dec(n \div 10) \o << 48 + (n % 10) >>

\* "#%d%d" % (len("%d" % len(data)), len(data))
BlockHeader(d) == << 35 >> \o Dec(Len(Dec(Len(d)))) \o Dec(Len(d))

\* getMarkers: length = int(data[1]); data = data[2+length:]
StripBlockHeader(d) ==
  IF Len(d) < 2 THEN Raise("IndexError")
  ELSE IF d[2] \notin Digit THEN Raise("ValueError")
  ELSE LET length == d[2] - 48
       IN  IF 2 + length >= Len(d) THEN Return(<<>>)
           ELSE Return(Slice(d, 2 + length, Len(d)))

RECURSIVE SkipWhile(_, _, _)
SkipWhile(d, k, S) ==
  IF k < Len(d) /\ d[k + 1] \in S THEN SkipWhile(d, k + 1, S) ELSE k

\* getWaveform: m = re.match("\\s*\#\\d+\\s*", data); data = m.string[m.end(0):]
MatchBlockHeader(d) ==
  LET p1 == SkipWhile(d, 0, Space)
  IN  IF ~(p1 < Len(d) /\ d[p1 + 1] = 35) THEN Raise("AttributeError")
      ELSE LET p2 == SkipWhile(d, p1 + 1, Digit)
           IN  IF p2 = p1 + 1 THEN Raise("AttributeError")
               ELSE LET end == SkipWhile(d, p2, Space)
                    IN  Return(Slice(d, end, Len(d)))

(***************************************************************************)
(* The codec and the framer applied to a caller's buffer.                  *)
(***************************************************************************)
RealBuffers ==
  UNION { { [codec |-> "REAL", values |-> v, markers |-> m] :
              v \in [1..n -> RealAmps], m \in [1..n -> Markers] } : n \in 0..MaxLen }

IntBuffers ==
  UNION { { [codec |-> "INT", values |-> v, markers |-> m] :
              v \in [1..n -> IntAmps], m \in [1..n -> Markers] } : n \in 0..MaxLen }

MarkerBuffers ==
  UNION { { [codec |-> "MARKERS", values |-> <<>>, markers |-> m] :
              m \in [1..n -> Markers] } : n \in 0..MaxLen }

IdleDriver ==
  /\ pc = "idle"
  /\ op = None
  /\ args = <<>>
  /\ ret = Return(None)
  /\ log = <<>>
  /\ waveforms = <<>>
  /\ waveformNames = <<>>
  /\ nWaveforms = 0
  /\ i = 0

InitCodec ==
  /\ \/ buffer \in RealBuffers
     \/ buffer \in IntBuffers
     \/ buffer \in MarkerBuffers
  /\ data = <<>>
  /\ block = <<>>
  /\ unframed = None
  /\ decoded = None
  /\ stage = "input"
  /\ IdleDriver

Encode ==
  /\ stage = "input"
  /\ data' = CASE buffer.codec = "REAL" -> writeRealData(buffer.values, buffer.markers)
               [] buffer.codec = "INT" -> writeIntData(buffer.values, buffer.markers)
               [] buffer.codec = "MARKERS" -> writeMarkers(buffer.markers)
  /\ stage' = "encoded"
  /\ UNCHANGED <<buffer, block, unframed, decoded>>
  /\ UNCHANGED driverVars

\* The payload reaches the decoder k bytes short.
Truncate(k) ==
  /\ stage = "encoded"
  /\ k <= Len(data)
  /\ data' = SubSeq(data, 1, Len(data) - k)
  /\ stage' = "truncated"
  /\ UNCHANGED <<buffer, block, unframed, decoded>>
  /\ UNCHANGED driverVars

Decode ==
  /\ stage \in {"encoded", "truncated"}
  /\ decoded' = CASE buffer.codec = "REAL" -> Return(readRealData(data))
                  [] buffer.codec = "INT" -> Return(readIntData(data))
                  [] buffer.codec = "MARKERS" -> Return(readMarkers(data))
  /\ stage' = IF stage = "encoded" THEN "decoded" ELSE "decodedShort"
  /\ UNCHANGED <<buffer, data, block, unframed>>
  /\ UNCHANGED driverVars

Frame ==
  /\ stage \in {"encoded", "truncated"}
  /\ block' = BlockHeader(data) \o data
  /\ stage' = "framed"
  /\ UNCHANGED <<buffer, data, unframed, decoded>>
  /\ UNCHANGED driverVars

Unframe ==
  /\ stage = "framed"
  /\ unframed' = [markers |-> StripBlockHeader(block), waveform |-> MatchBlockHeader(block)]
  /\ stage' = "unframed"
  /\ UNCHANGED <<buffer, data, block, decoded>>
  /\ UNCHANGED driverVars

NextCodec ==
  \/ Encode
  \/ \E k \in 1..MaxDrop : Truncate(k)
  \/ Decode
  \/ Frame
  \/ Unframe

SpecCodec == InitCodec /\ [][NextCodec]_vars

(***************************************************************************)
(* The session: every write, ask and notify of a call is appended to log.  *)
(***************************************************************************)
WriteEv(cmd, params, body) ==
  [kind |-> "write", cmd |-> cmd, params |-> params, body |-> body]

AskEv(cmd, params, reply) ==
  [kind |-> "ask", cmd |-> cmd, params |-> params, body |-> reply]

NotifyEv(topic, payload) ==
  [kind |-> "notify", cmd |-> topic, params |-> <<>>, body |-> payload]

\* int(text) of a decimal reply
RECURSIVE ParseDec(_)
ParseDec(t) ==
  IF Len(t) = 0 THEN 0
  ELSE 10 * ParseDec(SubSeq(t, 1, Len(t) - 1)) + (t[Len(t)] - 48)

Unquote(t) == Slice(t, 1, Len(t) - 1)        \* reply[1:-1]

Names == { << 97 >>, << 98 >> }              \* "a", "b"

Quoted(name) == << 34 >> \o name \o << 34 >>

(***************************************************************************)
(* Transfer operations.                                                    *)
(***************************************************************************)
\* createWaveform with the sample count always taken as len(data) / 5.
createWaveform_NoIntSize(name, d, wavetype) ==
  LET size == Len(d) \div 5
  IN  << WriteEv("WLIST:WAVEFORM:NEW", << name, size, wavetype >>, <<>>),
         WriteEv("WLIST:WAVEFORM:DATA", << name, 0, size >>, BlockHeader(d) \o d) >>

createWaveform(name, d, wavetype) ==
  LET size   == IF wavetype = "INT" THEN Len(d) \div 2 ELSE Len(d) \div 5
      header == BlockHeader(d)
  IN  << WriteEv("WLIST:WAVEFORM:NEW", << name, size, wavetype >>, <<>>),
         WriteEv("WLIST:WAVEFORM:DATA", << name, 0, size >>, header \o d) >>

createRawWaveform(name, values, mks, wavetype) ==
  LET d == IF wavetype = "INT" THEN writeIntData(values, mks)
           ELSE writeRealData(values, mks)
  IN  createWaveform(name, d, wavetype)

updateMarkers(name, mks) ==
  LET d      == writeMarkers(mks)
      size   == Len(mks)
      header == BlockHeader(d)
  IN  << WriteEv("WLIST:WAVEFORM:MARKER:DATA", << name, 0, size >>, header \o d) >>

deleteWaveform(name) == << WriteEv("WLIST:WAVEFORM:DELETE", << name >>, <<>>) >>

\* getMarkers: the session calls and the outcome, given the instrument's reply.
getMarkers(name, reply) ==
  LET stripped == StripBlockHeader(reply)
  IN  [ log |-> << AskEv("WLIST:WAVEFORM:MARKER:DATA?", << name >>, reply) >>,
        ret |-> IF stripped.raised # None THEN stripped
                ELSE Return(readMarkers(stripped.value)) ]

Waveform(name, values, mks, length, rawdata, wavetype) ==
  [ name |-> name, data |-> values, markers |-> mks, length |-> length,
    format |-> None, rawdata |-> rawdata, type |-> wavetype ]

\* getWaveform: the session calls and the outcome, given the two replies.
getWaveform(name, dataReply, wavetype) ==
  LET m   == MatchBlockHeader(dataReply)
      d   == m.value
      lg  == << WriteEv("*CLS", <<>>, <<>>),
                AskEv("WLIST:WAVEFORM:DATA?", << name >>, dataReply),
                AskEv("WLIST:WAVEFORM:TYPe?", << name >>, wavetype) >>
  IN  [ log |-> lg,
        ret |-> IF m.raised # None THEN m
                ELSE IF wavetype = "REAL"
                  THEN LET r == readRealData(d)
                       IN  Return(Waveform(name, r[1], r[2], Len(d) \div 5, d, wavetype))
                ELSE IF wavetype = "INT"
                  THEN LET r == readIntData(d)
                       IN  Return(Waveform(name, r[1], r[2], Len(d) \div 2, d, wavetype))
                ELSE Raise("UnboundLocalError") ]

(***************************************************************************)
(* What the instrument may reply.                                          *)
(***************************************************************************)
Cuts(d) == { SubSeq(d, 1, Len(d) - k) : k \in 0..(IF Len(d) < MaxDrop THEN Len(d) ELSE MaxDrop) }

Payloads ==
  UNION ( { Cuts(writeRealData(b.values, b.markers)) : b \in RealBuffers }
          \cup { Cuts(writeIntData(b.values, b.markers)) : b \in IntBuffers }
          \cup { Cuts(writeMarkers(b.markers)) : b \in MarkerBuffers } )

\* an empty reply, a reply without '#', a '#' without digits
Malformed == { <<>>, << 49, 48 >>, << 35, 0 >> }

Blocks == { BlockHeader(p) \o p : p \in Payloads } \cup Malformed

Types == { "REAL", "INT", "BOGUS" }

InitDriver ==
  /\ buffer = [codec |-> "MARKERS", values |-> <<>>, markers |-> <<>>]
  /\ data = <<>>
  /\ block = <<>>
  /\ unframed = None
  /\ decoded = None
  /\ stage = "input"
  /\ IdleDriver

Call(name, a, result) ==
  /\ pc' = "done"
  /\ op' = name
  /\ args' = a
  /\ ret' = result.ret
  /\ log' = result.log
  /\ UNCHANGED <<waveforms, waveformNames, nWaveforms, i>>
  /\ UNCHANGED codecVars

CreateRawWaveform ==
  /\ pc = "idle"
  /\ \E name \in Names :
    \/ \E b \in RealBuffers :
         Call("createRawWaveform",
              [name |-> name, values |-> b.values, markers |-> b.markers, wavetype |-> "REAL"],
              [log |-> createRawWaveform(name, b.values, b.markers, "REAL"), ret |-> Return(None)])
    \/ \E b \in IntBuffers :
         Call("createRawWaveform",
              [name |-> name, values |-> b.values, markers |-> b.markers, wavetype |-> "INT"],
              [log |-> createRawWaveform(name, b.values, b.markers, "INT"), ret |-> Return(None)])

UpdateMarkers ==
  /\ pc = "idle"
  /\ \E name \in Names, b \in MarkerBuffers :
    Call("updateMarkers", [name |-> name, markers |-> b.markers],
         [log |-> updateMarkers(name, b.markers), ret |-> Return(None)])

DeleteWaveform ==
  /\ pc = "idle"
  /\ \E name \in Names :
    Call("deleteWaveform", [name |-> name],
         [log |-> deleteWaveform(name), ret |-> Return(None)])

GetMarkers ==
  /\ pc = "idle"
  /\ \E name \in Names, reply \in Blocks :
    Call("getMarkers", [name |-> name, reply |-> reply], getMarkers(name, reply))

GetWaveform ==
  /\ pc = "idle"
  /\ \E name \in Names, reply \in Blocks, wavetype \in Types :
    Call("getWaveform", [name |-> name, reply |-> reply, wavetype |-> wavetype],
         getWaveform(name, reply, wavetype))

\* The call has returned (or raised) and the caller goes on.
Returned ==
  /\ pc = "done"
  /\ pc' = "idle"
  /\ op' = None
  /\ args' = <<>>
  /\ ret' = Return(None)
  /\ log' = <<>>
  /\ UNCHANGED <<waveforms, waveformNames, nWaveforms, i>>
  /\ UNCHANGED codecVars

NextTransfer ==
  \/ CreateRawWaveform
  \/ UpdateMarkers
  \/ DeleteWaveform
  \/ GetMarkers
  \/ GetWaveform
  \/ Returned

SpecTransfer == InitDriver /\ [][NextTransfer]_vars

(***************************************************************************)
(* Bulk fetches.  getWaveforms is a loop of asks: one step per iteration.  *)
(***************************************************************************)
SizeReplies == { Dec(n) : n \in 0..MaxWaveforms }

NameReplies == { Quoted(name) : name \in Names }

\* The replies to one getWaveform of the batch: a good INT waveform, a good
\* REAL waveform, an unknown type, a reply without a block header.
BatchReplies ==
  { [reply |-> BlockHeader(p) \o p, wavetype |-> "INT"] :
       p \in { writeIntData(<< 1 >>, << 2 >>) } }
  \cup
  { [reply |-> BlockHeader(p) \o p, wavetype |-> t] :
       p \in { writeRealData(<< [sign |-> 0, exp |-> 127, mant |-> 0] >>, << 1 >>) },
       t \in { "REAL", "BOGUS" } }
  \cup
  { [reply |-> << 49, 48 >>, wavetype |-> "INT"] }

RECURSIVE NameAsks(_, _)
NameAsks(replies, k) ==
  IF k >= Len(replies) THEN <<>>
  ELSE << AskEv("WLIST:NAME?", << k >>, replies[k + 1]) >> \o NameAsks(replies, k + 1)

GetWaveformNames ==
  /\ pc = "idle"
  /\ \E sizeReply \in SizeReplies :
       \E replies \in [1..ParseDec(sizeReply) -> NameReplies] :
          LET names == [ k \in 1..Len(replies) |-> Unquote(replies[k]) ]
          IN  /\ waveformNames' = names
              /\ log' = << AskEv("WLIST:SIZE?", <<>>, sizeReply) >>
                        \o NameAsks(replies, 0)
                        \o << NotifyEv("waveformnames", names) >>
              /\ ret' = Return(names)
              /\ args' = replies
  /\ op' = "getWaveformNames"
  /\ pc' = "done"
  /\ UNCHANGED <<waveforms, nWaveforms, i>>
  /\ UNCHANGED codecVars

GwBegin ==
  /\ pc = "idle"
  /\ \E sizeReply \in SizeReplies :
       /\ nWaveforms' = ParseDec(sizeReply)
       /\ log' = << AskEv("WLIST:SIZE?", <<>>, sizeReply) >>
  /\ waveforms' = <<>>
  /\ i' = 0
  /\ op' = "getWaveforms"
  /\ args' = <<>>
  /\ pc' = "loop"
  /\ UNCHANGED <<ret, waveformNames>>
  /\ UNCHANGED codecVars

\* One iteration: ask the name, getWaveform, append or swallow the exception.
\* args keeps, per iteration, the name and the exception getWaveform raised.
GwFetch ==
  /\ pc = "loop"
  /\ i < nWaveforms
  /\ \E nameReply \in NameReplies, r \in BatchReplies :
       LET name == Unquote(nameReply)
           got  == getWaveform(name, r.reply, r.wavetype)
       IN  /\ log' = log \o << AskEv("WLIST:NAME?", << i >>, nameReply) >> \o got.log
           /\ waveforms' = IF got.ret.raised = None
                             THEN Append(waveforms, got.ret.value)
                             ELSE waveforms
           /\ args' = Append(args, [name |-> name, raised |-> got.ret.raised])
  /\ i' = i + 1
  /\ UNCHANGED <<pc, op, ret, waveformNames, nWaveforms>>
  /\ UNCHANGED codecVars

\* getWaveforms returning without the notification.
GwNotify_NoNotify ==
  /\ pc = "loop"
  /\ i >= nWaveforms
  /\ ret' = Return(waveforms)
  /\ pc' = "done"
  /\ UNCHANGED <<op, args, log, waveforms, waveformNames, nWaveforms, i>>
  /\ UNCHANGED codecVars

GwNotify ==
  /\ pc = "loop"
  /\ i >= nWaveforms
  /\ log' = Append(log, NotifyEv("waveforms", waveforms))
  /\ ret' = Return(waveforms)
  /\ pc' = "done"
  /\ UNCHANGED <<op, args, waveforms, waveformNames, nWaveforms, i>>
  /\ UNCHANGED codecVars

NextBatch ==
  \/ GetWaveformNames
  \/ GwBegin
  \/ GwFetch
  \/ GwNotify
  \/ Returned

SpecBatch == InitDriver /\ [][NextBatch]_vars

(***************************************************************************)
(* Properties of the codec and the framer (checked under SpecCodec).       *)
(***************************************************************************)

\* C1: INT round trip: readIntData(writeIntData(values, markers)) returns the
\* amplitudes (0..255) and the markers (0..3) that were encoded, in order.
C1_IntRoundTrip ==
  (stage = "decoded" /\ buffer.codec = "INT") =>
     /\ decoded.raised = None
     /\ decoded.value = << buffer.values, buffer.markers >>

C1_Witness ==
  /\ stage = "decoded"
  /\ buffer.codec = "INT"
  /\ buffer.values = << 255, 170 >>
  /\ buffer.markers = << 3, 1 >>
  /\ data = << 192, 255, 128, 106 >>
  /\ decoded.value = << buffer.values, buffer.markers >>

\* C2: REAL round trip: readRealData(writeRealData(values, markers)) returns
\* the float32 amplitudes and the markers (0..3) that were encoded.
C2_RealRoundTrip ==
  (stage = "decoded" /\ buffer.codec = "REAL") =>
     /\ decoded.raised = None
     /\ decoded.value = << buffer.values, buffer.markers >>

\* C3: framer round trip: a payload prefixed with the header of createWaveform
\* / updateMarkers and stripped as getMarkers and as getWaveform strip it is
\* the payload again, whatever its bytes.
C3_FramerRoundTrip ==
  stage = "unframed" =>
     /\ unframed.markers.raised = None
     /\ unframed.markers.value = data
     /\ unframed.waveform.raised = None
     /\ unframed.waveform.value = data

\* C6: decoding never truncates silently: readRealData on a payload whose
\* length is no multiple of 5, and readIntData on one whose length is no
\* multiple of 2, fail with MalformedPayload.
C6_NoSilentTruncation ==
  ( /\ stage \in {"decoded", "decodedShort"}
    /\ \/ buffer.codec = "REAL" /\ Len(data) % 5 # 0
       \/ buffer.codec = "INT" /\ Len(data) % 2 # 0 )
  => decoded.raised = "MalformedPayload"

\* C10: marker-only round trip: writeMarkers emits one byte per marker, the
\* code in bits 6-7 and bits 0-5 zero, and readMarkers returns the markers.
C10_MarkerRoundTrip ==
  (buffer.codec = "MARKERS" /\ stage \in {"encoded", "decoded"}) =>
     /\ Len(data) = Len(buffer.markers)
     /\ \A k \in 1..Len(data) :
          data[k] % 64 = 0 /\ data[k] \div 64 = buffer.markers[k]
     /\ stage = "decoded" =>
          (decoded.raised = None /\ decoded.value = buffer.markers)

C10_Witness ==
  /\ buffer.codec = "MARKERS"
  /\ stage = "decoded"
  /\ buffer.markers = << 3, 2 >>
  /\ data = << 192, 128 >>
  /\ decoded.value = << 3, 2 >>

(***************************************************************************)
(* Properties of the transfer operations (checked under SpecTransfer).     *)
(***************************************************************************)
AsksAfter(lg, k) == { j \in (k + 1)..Len(lg) : lg[j].kind = "ask" }

\* C4: getWaveform on an announced type that is neither REAL nor INT (the
\* block data itself being well framed) fails with UnknownEncoding, returns
\* no Waveform and asks nothing after the type has been received.
C4_UnknownEncoding ==
  ( /\ pc = "done"
    /\ op = "getWaveform"
    /\ args.wavetype \notin {"REAL", "INT"}
    /\ args.reply \notin Malformed ) =>
     /\ ret.raised = "UnknownEncoding"
     /\ \A k \in 1..Len(log) :
          (log[k].kind = "ask" /\ log[k].cmd = "WLIST:WAVEFORM:TYPe?")
             => AsksAfter(log, k) = {}

\* C7: every marker of a Waveform that getWaveform returns (type REAL or INT,
\* whatever the payload) is in 0..3.
C7_MarkerRange ==
  (pc = "done" /\ op = "getWaveform" /\ ret.raised = None) =>
     \A k \in 1..Len(ret.value.markers) : ret.value.markers[k] \in 0..3

\* C9: createRawWaveform (REAL or INT, n values and n markers) issues exactly
\* two writes: the declaration with length n and the wavetype, then the block
\* data for the same name with sample count n, whose header's length field is
\* the payload's byte count (5n for REAL, 2n for INT) and whose digit-count
\* field is the number of decimal digits of that byte count.
C9_CreateRawWaveformWrites ==
  (pc = "done" /\ op = "createRawWaveform") =>
     LET n     == Len(args.values)
         bytes == IF args.wavetype = "REAL" THEN 5 * n ELSE 2 * n
         nd    == IF bytes < 10 THEN 1 ELSE IF bytes < 100 THEN 2 ELSE 3
     IN  /\ Len(log) = 2
         /\ log[1] = WriteEv("WLIST:WAVEFORM:NEW", << args.name, n, args.wavetype >>, <<>>)
         /\ log[2].kind = "write"
         /\ log[2].cmd = "WLIST:WAVEFORM:DATA"
         /\ log[2].params = << args.name, 0, n >>
         /\ LET body == log[2].body
            IN  /\ Len(body) = 2 + nd + bytes
                /\ body[1] = 35
                /\ body[2] = 48 + nd
                /\ ParseDec(SubSeq(body, 3, 2 + nd)) = bytes
                /\ \A k \in 3..(2 + nd) : body[k] \in Digit

C9_Witness ==
  /\ pc = "done"
  /\ op = "createRawWaveform"
  /\ args.wavetype = "REAL"
  /\ Len(args.values) = 2
  /\ args.markers = << 0, 3 >>
  /\ Len(log) = 2
  /\ log[1].params = << args.name, 2, "REAL" >>
  /\ SubSeq(log[2].body, 1, 4) = << 35, 50, 49, 48 >>
  /\ Len(log[2].body) = 14

(***************************************************************************)
(* Properties of the bulk fetches (checked under SpecBatch).               *)
(***************************************************************************)
Notifies(lg) == { k \in 1..Len(lg) : lg[k].kind = "notify" }

Asks(lg) == { k \in 1..Len(lg) : lg[k].kind = "ask" }

\* C5: getWaveforms is not aborted by failing fetches and returns one entry
\* per reported waveform name: the waveform, or an entry that marks the
\* failure.
C5_OneEntryPerWaveform ==
  (pc = "done" /\ op = "getWaveforms") =>
     /\ Len(args) = nWaveforms
     /\ Len(ret.value) = nWaveforms
     /\ \A k \in 1..nWaveforms : ret.value[k].name = args[k].name

\* C8: getWaveforms and getWaveformNames notify exactly once per call, after
\* every ask of the call (also when fetches failed), under their topic and
\* with the list they return.
C8_NotifyOnceAndLast ==
  /\ pc = "loop" => Notifies(log) = {}
  /\ (pc = "done" /\ op \in {"getWaveforms", "getWaveformNames"}) =>
        /\ Notifies(log) = { Len(log) }
        /\ log[Len(log)].cmd =
             (IF op = "getWaveforms" THEN "waveforms" ELSE "waveformnames")
        /\ log[Len(log)].body = ret.value
        /\ ret.raised = None
        /\ Cardinality(Asks(log)) =
             (IF op = "getWaveforms" THEN 1 + 3 * nWaveforms ELSE 1 + Len(ret.value))

C8_Witness ==
  /\ pc = "done"
  /\ op = "getWaveforms"
  /\ nWaveforms = 2
  /\ args[1].raised = "UnboundLocalError"
  /\ args[2].raised = None
  /\ Len(ret.value) = 1
  /\ Notifies(log) = { 10 }
  /\ log[10] = NotifyEv("waveforms", ret.value)

====
